---------------------------- MODULE Spec2Model ----------------------------
(***************************************************************************)
(* Model of deepx_dock.compute.eigen: the Bloch transforms of matrix.py    *)
(* (AOMatrixR.r2k, AOMatrixK.k2r) and the band diagonalisation of          *)
(* hamiltonian.py (HamiltonianObj._r2k, HamiltonianObj.diag).              *)
(*                                                                         *)
(* Numbers are exact: a complex number is <<re, im, den>> standing for     *)
(* (re + i*im)/den, kept in lowest terms with den > 0.  Reciprocal points  *)
(* are held as integer numerators over 4 (k = <<1,0,0>> is the point       *)
(* (1/4,0,0)), so that every phase exp(2*pi*i*k.R) is a power of i and is  *)
(* computed exactly.  A numpy array is a record of its shape and its       *)
(* row-major data; an operation that raises returns an array whose field   *)
(* raised names the exception.                                             *)
(***************************************************************************)
EXTENDS Integers, Sequences, FiniteSets, TLC

(***************************************************************************)
(* Bounds of the model.                                                    *)
(***************************************************************************)
MaxNR == 3
MaxSeed == 2
MaxNk == 2
MaxWorkers == 2
MaxThreads == 2

(***************************************************************************)
(* Exact complex arithmetic.                                               *)
(***************************************************************************)
Abs(x) == IF x < 0 THEN -x ELSE x

RECURSIVE GCD(_, _)
GCD(a, b) == IF b = 0 THEN a ELSE GCD(b, a % b)

CNorm(c) ==
    LET g == GCD(GCD(Abs(c[1]), Abs(c[2])), c[3])
    IN  << c[1] \div g, c[2] \div g, c[3] \div g >>

CInt(n) == << n, 0, 1 >>

CZero == CInt(0)

CAdd(a, b) == CNorm(<< a[1] * b[3] + b[1] * a[3], a[2] * b[3] + b[2] * a[3], a[3] * b[3] >>)

CMul(a, b) == CNorm(<< a[1] * b[1] - a[2] * b[2], a[1] * b[2] + a[2] * b[1], a[3] * b[3] >>)

\* exp(2*pi*i * q/4), q the numerator over 4 of the exponent's real factor
ExpoNeg(q) ==
    CASE q % 4 = 0 -> << 1, 0, 1 >>
      [] q % 4 = 1 -> << 0, -1, 1 >>
      [] q % 4 = 2 -> << -1, 0, 1 >>
      [] OTHER     -> << 0, 1, 1 >>

Expo(q) ==
    CASE q % 4 = 0 -> << 1, 0, 1 >>
      [] q % 4 = 1 -> << 0, 1, 1 >>
      [] q % 4 = 2 -> << -1, 0, 1 >>
      [] OTHER     -> << 0, -1, 1 >>

Dot(u, v) == u[1] * v[1] + u[2] * v[2] + u[3] * v[3]

(***************************************************************************)
(* numpy arrays.                                                           *)
(***************************************************************************)
RECURSIVE Prod(_)
Prod(s) == IF s = << >> THEN 1 ELSE s[1] * Prod(Tail(s))

\* the array of the given shape holding data (SubSeq gives the data as a
\* plain sequence of Prod(shape) values)
NdArray(shape, data) ==
    [raised |-> "", shape |-> shape, data |-> SubSeq(data, 1, Prod(shape))]

Raised(name) == [raised |-> name, shape |-> << >>, data |-> << >>]

Size(a) == Len(a.data)

\* no array: the value None
NoArray == Raised("None")

\* a.reshape(n, -1)
ReshapeRows(a, n) ==
    IF a.raised # "" THEN a
    ELSE IF Size(a) % n # 0 THEN Raised("ValueError")
    ELSE NdArray(<< n, Size(a) \div n >>, a.data)

\* a.reshape(*shape)
Reshape(a, shape) ==
    IF a.raised # "" THEN a
    ELSE IF Prod(shape) # Size(a) THEN Raised("ValueError")
    ELSE NdArray(shape, a.data)

At2(a, i, j) == a.data[(i - 1) * a.shape[2] + j]

\* sum over l in lo..hi of a[i,l] * b[l,j]; the sum is exact, so it is split in
\* halves to keep the evaluation shallow
RECURSIVE RowCol(_, _, _, _, _, _)
RowCol(a, b, i, j, lo, hi) ==
    IF lo > hi THEN CZero
    ELSE IF lo = hi THEN CMul(At2(a, i, lo), At2(b, lo, j))
    ELSE LET mid == (lo + hi) \div 2
         IN  CAdd(RowCol(a, b, i, j, lo, mid), RowCol(a, b, i, j, mid + 1, hi))

\* np.matmul of two 2-d arrays
MatMul(a, b) ==
    IF a.raised # "" THEN a
    ELSE IF b.raised # "" THEN b
    ELSE IF a.shape[2] # b.shape[1] THEN Raised("ValueError")
    ELSE LET n == a.shape[1]
             p == b.shape[2]
         IN  NdArray(<< n, p >>,
                     [x \in 1..(n * p) |->
                        RowCol(a, b, ((x - 1) \div p) + 1, ((x - 1) % p) + 1, 1, a.shape[2])])

\* a * w[:, None] for a 2-d array a and a vector w
ScaleRows(a, w) ==
    IF a.raised # "" THEN a
    ELSE NdArray(a.shape,
                 [x \in 1..Size(a) |-> CMul(a.data[x], w[((x - 1) \div a.shape[2]) + 1])])

\* a[i] of an array of 3 axes: the i-th matrix
Sub(a, i) ==
    LET m == a.shape[2] * a.shape[3]
    IN  NdArray(<< a.shape[2], a.shape[3] >>, [x \in 1..m |-> a.data[(i - 1) * m + x]])

(***************************************************************************)
(* matrix.py                                                               *)
(***************************************************************************)
\* AOMatrixR.__init__
AOMatrixR(Rs, MRs) == [Rs |-> Rs, MRs |-> MRs]

\* one entry of np.exp(2j * np.pi * np.matmul(ks, Rs.T))
R2kPhase(k, R) == Expo(Dot(k, R))

\* AOMatrixR.r2k
r2k(self, ks) ==
    LET phase    == NdArray(<< Len(ks), Len(self.Rs) >>,
                            [x \in 1..(Len(ks) * Len(self.Rs)) |->
                               R2kPhase(ks[((x - 1) \div Len(self.Rs)) + 1],
                                        self.Rs[((x - 1) % Len(self.Rs)) + 1])])
        MRs_flat == ReshapeRows(self.MRs, Len(self.Rs))
        Mks_flat == MatMul(phase, MRs_flat)
    IN  Reshape(Mks_flat, << Len(ks) >> \o Tail(self.MRs.shape))

\* AOMatrixK.__init__
AOMatrixK(ks, MKs) == [ks |-> ks, MKs |-> MKs]

\* the weights k2r uses; << >> stands for weights=None
K2rWeights(self, weights) ==
    IF weights = << >>
    THEN [x \in 1..Len(self.ks) |-> << 1, 0, Len(self.ks) >>]
    ELSE weights

\* the phase with the sign of r2k kept
K2rPhaseUnconjugated(R, k) == Expo(Dot(R, k))

\* one entry of np.exp(-2j * np.pi * np.matmul(Rs, self.ks.T))
K2rPhase(R, k) == ExpoNeg(Dot(R, k))

\* AOMatrixK.k2r
k2r(self, Rs, weights) ==
    LET w        == K2rWeights(self, weights)
        phase    == NdArray(<< Len(Rs), Len(self.ks) >>,
                            [x \in 1..(Len(Rs) * Len(self.ks)) |->
                               K2rPhase(Rs[((x - 1) \div Len(self.ks)) + 1],
                                        self.ks[((x - 1) % Len(self.ks)) + 1])])
        MKs_flat == ReshapeRows(self.MKs, Len(self.ks))
        MRs_flat == MatMul(phase, ScaleRows(MKs_flat, w))
    IN  Reshape(MRs_flat, << Len(Rs) >> \o Tail(self.MKs.shape))

(***************************************************************************)
(* hamiltonian.py: the solvers as process_k calls them.                    *)
(*                                                                         *)
(* An eigenvalue is an exact fraction <<num, den>>, den > 0, in lowest     *)
(* terms.  The solvers are modelled on pairs (Hk, Sk) of real diagonal     *)
(* matrices, which is what the Hamiltonians of HamChoices give at every    *)
(* point: the eigenvalue of orbital j is Hk[j,j]/Sk[j,j] and its           *)
(* eigenvector is along the j-th unit vector (a column records the         *)
(* direction, the normalisation factor is dropped).                        *)
(***************************************************************************)
QNorm(q) ==
    LET n == IF q[2] < 0 THEN -q[1] ELSE q[1]
        d == Abs(q[2])
        g == GCD(Abs(n), d)
    IN  << n \div g, d \div g >>

QLess(a, b) == a[1] * b[2] < b[1] * a[2]

QAbs(a) == << Abs(a[1]), a[2] >>

AllPerms(n) == { p \in [1..n -> 1..n] : \A i, j \in 1..n : i # j => p[i] # p[j] }

\* the order as given: no sorting done
ArgSortNone(vals) == [i \in 1..Len(vals) |-> i]

\* the permutation that puts vals in ascending order (equal values keep
\* their order)
Ascending(vals) ==
    CHOOSE p \in AllPerms(Len(vals)) :
        \A i, j \in 1..Len(vals) :
            i < j => \/ QLess(vals[p[i]], vals[p[j]])
                     \/ (vals[p[i]] = vals[p[j]] /\ p[i] < p[j])

\* np.argsort(vals), and the order np.sort(vals) puts vals in
ArgSort(vals) == Ascending(vals)

\* vals[idx]
Take(vals, idx) == [i \in 1..Len(idx) |-> vals[idx[i]]]

\* vecs[:, idx]
TakeCols(vecs, idx) ==
    NdArray(<< vecs.shape[1], Len(idx) >>,
            [x \in 1..(vecs.shape[1] * Len(idx)) |->
               At2(vecs, ((x - 1) \div Len(idx)) + 1, idx[((x - 1) % Len(idx)) + 1])])

\* vecs[:, e] as a sequence
Col(vecs, e) == [b \in 1..vecs.shape[1] |-> At2(vecs, b, e)]

EigVal(Hk, Sk, j) ==
    QNorm(<< At2(Hk, j, j)[1] * At2(Sk, j, j)[3], At2(Hk, j, j)[3] * At2(Sk, j, j)[1] >>)

\* the eigenvectors of the orbitals idx[1], idx[2], ... as the columns of a matrix
UnitCols(Nb, idx) ==
    NdArray(<< Nb, Len(idx) >>,
            [x \in 1..(Nb * Len(idx)) |->
               IF ((x - 1) \div Len(idx)) + 1 = idx[((x - 1) % Len(idx)) + 1]
               THEN CInt(1) ELSE CInt(0)])

PositiveDefinite(Sk) == \A j \in 1..Sk.shape[1] : At2(Sk, j, j)[1] > 0

SolverRaised(name) == [raised |-> name, vals |-> << >>, vecs |-> NoArray]

\* what a solver returns for the orbitals idx, in that order
SolverResult(Hk, Sk, idx, with_vecs) ==
    [raised |-> "",
     vals   |-> [i \in 1..Len(idx) |-> EigVal(Hk, Sk, idx[i])],
     vecs   |-> IF with_vecs THEN UnitCols(Hk.shape[1], idx) ELSE NoArray]

\* scipy.linalg.eigh(Hk, Sk[, eigvals_only=True]): all eigenpairs, ascending;
\* LinAlgError when Sk is not positive definite
eigh(Hk, Sk, eigvals_only) ==
    IF ~PositiveDefinite(Sk) THEN { SolverRaised("LinAlgError") }
    ELSE { SolverResult(Hk, Sk,
                        Ascending([j \in 1..Hk.shape[1] |-> EigVal(Hk, Sk, j)]),
                        ~eigvals_only) }

\* keyword arguments: a field holds 0 or "" when the keyword is not given
NoKwargs == [k |-> 0, which |-> "", driver |-> ""]

\* eigsh's criterion `which`: whether eigenvalue a is wanted before b
Wanted(which, a, b) ==
    CASE which = "SA" -> QLess(a, b)
      [] which = "LA" -> QLess(b, a)
      [] OTHER        -> QLess(QAbs(b), QAbs(a))

\* scipy.sparse.linalg.eigsh(Hk, M=Sk[, return_eigenvectors=False], **kwargs)
\* on dense arrays: TypeError for a keyword eigsh does not have; with k >= N
\* (k defaults to 6) it hands the problem to eigh; otherwise k eigenpairs
\* chosen by `which` (default "LM"), in an order the solver does not fix, or
\* ArpackNoConvergence.
eigsh(Hk, Sk, return_eigenvectors, kwargs) ==
    LET N     == Hk.shape[1]
        k     == IF kwargs.k = 0 THEN 6 ELSE kwargs.k
        which == IF kwargs.which = "" THEN "LM" ELSE kwargs.which
        val   == SubSeq([j \in 1..N |-> EigVal(Hk, Sk, j)], 1, N)
        sels  == { S \in SUBSET (1..N) :
                     /\ Cardinality(S) = k
                     /\ \A a \in S, b \in (1..N) \ S : ~Wanted(which, val[b], val[a]) }
    IN  IF kwargs.driver # "" THEN { SolverRaised("TypeError") }
        ELSE IF k >= N THEN eigh(Hk, Sk, ~return_eigenvectors)
        ELSE { SolverRaised("ArpackNoConvergence") } \cup
             { SolverResult(Hk, Sk, idx, return_eigenvectors) :
                 idx \in { p \in [1..k -> 1..N] :
                             /\ \A i, j \in 1..k : i # j => p[i] # p[j]
                             /\ { p[i] : i \in 1..k } \in sels } }

(***************************************************************************)
(* hamiltonian.py: HamiltonianObj                                          *)
(***************************************************************************)
\* the phase left out: every term of the sum taken with factor 1
PhaseOmitted(k, R) == CInt(1)

\* one entry of np.exp(2j * np.pi * np.matmul(ks, Rijk_list.T))
Phase(k, R) == Expo(Dot(k, R))

\* HamiltonianObj._r2k
_r2k(ks, Rijk_list, mats) ==
    LET phase    == NdArray(<< Len(ks), Len(Rijk_list) >>,
                            [x \in 1..(Len(ks) * Len(Rijk_list)) |->
                               Phase(ks[((x - 1) \div Len(Rijk_list)) + 1],
                                     Rijk_list[((x - 1) % Len(Rijk_list)) + 1])])
        MRs_flat == ReshapeRows(mats, Len(Rijk_list))
        Mks_flat == MatMul(phase, MRs_flat)
    IN  Reshape(Mks_flat, << Len(ks) >> \o Tail(mats.shape))

\* what process_k returns or raises, with its locals: the matrices it built,
\* the solver it called, the keywords it passed and what the solver returned
UnitResult(k, Sk, Hk, solver, kw, raw, vals, vecs) ==
    [raised |-> raw.raised, k |-> k, Sk |-> Sk, Hk |-> Hk, solver |-> solver,
     kw |-> kw, raw |-> raw, vals |-> vals, vecs |-> vecs]

\* diag.process_k(k): the set of its possible outcomes
process_k(self, k, sparse_calc, bands_only, kwargs) ==
    LET Sk == Sub(_r2k(<< k >>, self.Rijk_list, self.SR), 1)
        Hk == Sub(_r2k(<< k >>, self.Rijk_list, self.HR), 1)
    IN  IF sparse_calc
        THEN IF bands_only
             THEN { UnitResult(k, Sk, Hk, "eigsh", kwargs, raw,
                               Take(raw.vals, ArgSort(raw.vals)), NoArray) :
                      raw \in eigsh(Hk, Sk, FALSE, kwargs) }
             ELSE { UnitResult(k, Sk, Hk, "eigsh", kwargs, raw,
                               Take(raw.vals, ArgSort(raw.vals)),
                               IF raw.raised # "" THEN NoArray
                               ELSE TakeCols(raw.vecs, ArgSort(raw.vals))) :
                      raw \in eigsh(Hk, Sk, TRUE, kwargs) }
        ELSE IF bands_only
             THEN { UnitResult(k, Sk, Hk, "eigh", NoKwargs, raw, raw.vals, NoArray) :
                      raw \in eigh(Hk, Sk, TRUE) }
             ELSE { UnitResult(k, Sk, Hk, "eigh", NoKwargs, raw, raw.vals, raw.vecs) :
                      raw \in eigh(Hk, Sk, FALSE) }

\* a unit whose exception is caught and dropped
FinishedSwallowing(o) == "done"

\* how a call process_k(k) that ended with o leaves its unit: an exception
\* of process_k is not caught in diag
Finished(o) == IF o.raised # "" THEN "failed" ELSE "done"

\* thread_num after lines 123-124; 0 stands for None and for an unset variable
ThreadLimit(thread_num, env) ==
    IF thread_num = 0 THEN (IF env = 0 THEN 1 ELSE env) ELSE thread_num

\* the list in the order the units completed
ResultsByCompletion(unit, order) == [j \in 1..Len(order) |-> unit[order[j]].res]

\* the list the comprehension of line 127 builds and Parallel(...) of lines
\* 129-131 returns: one result per query point, in the order of ks
Results(unit, order) == [i \in 1..Len(unit) |-> unit[i].res]

\* np.stack of one-axis arrays along axis 0
StackValsLeading(vs) ==
    IF \E i \in DOMAIN vs : Len(vs[i]) # Len(vs[1]) THEN Raised("ValueError")
    ELSE NdArray(<< Len(vs), Len(vs[1]) >>,
                 [x \in 1..(Len(vs) * Len(vs[1])) |->
                    vs[((x - 1) \div Len(vs[1])) + 1][((x - 1) % Len(vs[1])) + 1]])

\* np.stack(vs, axis=1) with every array cut to the shortest
StackValsTruncating(vs) ==
    LET ne == CHOOSE n \in { Len(vs[i]) : i \in DOMAIN vs } :
                \A i \in DOMAIN vs : n <= Len(vs[i])
    IN  NdArray(<< ne, Len(vs) >>,
                [x \in 1..(ne * Len(vs)) |->
                   vs[((x - 1) % Len(vs)) + 1][((x - 1) \div Len(vs)) + 1]])

\* np.stack(vs, axis=1) of one-axis arrays: ValueError unless all have one shape
StackVals(vs) ==
    IF \E i \in DOMAIN vs : Len(vs[i]) # Len(vs[1]) THEN Raised("ValueError")
    ELSE NdArray(<< Len(vs[1]), Len(vs) >>,
                 [x \in 1..(Len(vs[1]) * Len(vs)) |->
                    vs[((x - 1) % Len(vs)) + 1][((x - 1) \div Len(vs)) + 1]])

\* np.stack(ms, axis=2) of two-axis arrays: ValueError unless all have one shape
StackVecs(ms) ==
    IF \E i \in DOMAIN ms : ms[i].shape # ms[1].shape THEN Raised("ValueError")
    ELSE LET nb == ms[1].shape[1]
             ne == ms[1].shape[2]
         IN  NdArray(<< nb, ne, Len(ms) >>,
                     [x \in 1..(nb * ne * Len(ms)) |->
                        At2(ms[((x - 1) % Len(ms)) + 1],
                            ((x - 1) \div (ne * Len(ms))) + 1,
                            (((x - 1) \div Len(ms)) % ne) + 1)])

NoReturn == [raised |-> "", eigvals |-> NoArray, eigvecs |-> NoArray]

\* lines 133-146 of diag: the value returned, or the exception of np.stack
Reorganize(results, bands_only) ==
    LET eigvals == StackVals([i \in DOMAIN results |-> results[i].vals])
        eigvecs == StackVecs([i \in DOMAIN results |-> results[i].vecs])
    IN  IF bands_only
        THEN [raised |-> eigvals.raised, eigvals |-> eigvals, eigvecs |-> NoArray]
        ELSE IF eigvals.raised # ""
             THEN [raised |-> eigvals.raised, eigvals |-> eigvals, eigvecs |-> NoArray]
             ELSE [raised |-> eigvecs.raised, eigvals |-> eigvals, eigvecs |-> eigvecs]

(***************************************************************************)
(* State.                                                                  *)
(***************************************************************************)
VARIABLES
    m_pc,        \* matrix.py run: "new", "built", "k", "r" or "raised"
    m_err,       \* the exception the matrix.py run raised, "" for none
    argRs,       \* displacements given to AOMatrixR(...)
    argMRs,      \* matrices given to AOMatrixR(...)
    argKs,       \* reciprocal points given to r2k
    aoR,         \* the AOMatrixR object
    aoK,         \* the AOMatrixK object made of r2k's result
    argWeights,  \* weights given to k2r, << >> for None
    backMRs,     \* what k2r returned
    pc,          \* diag: "call", "batch", "gathered", "returned" or "raised"
    err,         \* the exception diag raised, "" for none
    ham,         \* self: Rijk_list, HR, SR
    ks,          \* diag's arguments
    k_process_num,
    thread_num,  \* 0 for None
    sparse_calc,
    bands_only,
    kwargs,
    envThreads,  \* os.environ's OPENBLAS_NUM_THREADS, 0 when unset
    blasLimit,   \* the BLAS thread count in effect in the process
    unit,        \* per query point: st, the BLAS thread count it ran under, res
    order,       \* the indices of the units in the order they completed
    results,     \* the list `results` of diag
    ret          \* what diag returned

mvars == << m_pc, m_err, argRs, argMRs, argKs, aoR, aoK, argWeights, backMRs >>

args == << ham, ks, k_process_num, thread_num, sparse_calc, bands_only, kwargs, envThreads >>

dvars == << pc, err, args, blasLimit, unit, order, results, ret >>

vars == << mvars, dvars >>

NoObject == [Rs |-> << >>, MRs |-> NoArray]

NoObjectK == [ks |-> << >>, MKs |-> NoArray]

NoHam == [Rijk_list |-> << >>, HR |-> NoArray, SR |-> NoArray]

\* no matrix.py run
IdleMatrix ==
    /\ m_pc = "idle"
    /\ m_err = ""
    /\ argRs = << >>
    /\ argMRs = NoArray
    /\ argKs = << >>
    /\ aoR = NoObject
    /\ aoK = NoObjectK
    /\ argWeights = << >>
    /\ backMRs = NoArray

\* no call of diag
IdleDiag ==
    /\ pc = "idle"
    /\ err = ""
    /\ ham = NoHam
    /\ ks = << >>
    /\ k_process_num = 1
    /\ thread_num = 0
    /\ sparse_calc = FALSE
    /\ bands_only = FALSE
    /\ kwargs = NoKwargs
    /\ envThreads = 0
    /\ blasLimit = 1
    /\ unit = << >>
    /\ order = << >>
    /\ results = << >>
    /\ ret = NoReturn

(***************************************************************************)
(* Inputs of the matrix.py run.                                            *)
(***************************************************************************)
RPool == { << -1, 0, 0 >>, << 0, 0, 0 >>, << 1, 0, 0 >>, << 0, 1, 0 >> }

InjectiveSeqs(S, n) ==
    { s \in UNION { [1..l -> S] : l \in 1..n } : \A i, j \in DOMAIN s : i # j => s[i] # s[j] }

RsChoices == InjectiveSeqs(RPool, MaxNR)

Entry(seed, j) ==
    << (((seed + 1) * j + seed) % 5) - 2, IF seed = 0 THEN 0 ELSE ((seed + j) % 3) - 1, 1 >>

MRsChoices ==
    { NdArray(<< n0, n1, n2 >>, [j \in 1..(n0 * n1 * n2) |-> Entry(seed, j)]) :
        n0 \in 1..MaxNR, n1 \in 1..2, n2 \in 1..2, seed \in 0..MaxSeed }

\* the uniform grid of N points per axis, N a divisor of 4, in input order
GridPoint(N, x) ==
    << ((x - 1) \div (N * N)) * (4 \div N),
       (((x - 1) \div N) % N) * (4 \div N),
       ((x - 1) % N) * (4 \div N) >>

Grid(N) == [x \in 1..(N * N * N) |-> GridPoint(N, x)]

KsChoices == { Grid(1), Grid(2), Grid(4), << << 1, 0, 0 >>, << 2, 0, 0 >> >> }

InitMatrix ==
    /\ m_pc = "new"
    /\ m_err = ""
    /\ argRs \in RsChoices
    /\ argMRs \in MRsChoices
    /\ argKs \in KsChoices
    /\ aoR = NoObject
    /\ aoK = NoObjectK
    /\ argWeights = << >>
    /\ backMRs = NoArray
    /\ IdleDiag

\* AOMatrixR(Rs, MRs)
Construct ==
    /\ m_pc = "new"
    /\ aoR' = AOMatrixR(argRs, argMRs)
    /\ m_pc' = "built"
    /\ UNCHANGED << m_err, argRs, argMRs, argKs, aoK, argWeights, backMRs, dvars >>

\* AOMatrixK(ks, aoR.r2k(ks))
R2k ==
    /\ m_pc = "built"
    /\ LET MKs == r2k(aoR, argKs)
       IN  IF MKs.raised # ""
           THEN /\ m_pc' = "raised"
                /\ m_err' = MKs.raised
                /\ aoK' = aoK
           ELSE /\ m_pc' = "k"
                /\ m_err' = m_err
                /\ aoK' = AOMatrixK(argKs, MKs)
    /\ UNCHANGED << argRs, argMRs, argKs, aoR, argWeights, backMRs, dvars >>

\* aoK.k2r(aoR.Rs, weights)
K2r ==
    /\ m_pc = "k"
    /\ \E w \in { << >>, [x \in 1..Len(aoK.ks) |-> CInt(1)] } :
         /\ argWeights' = w
         /\ backMRs' = k2r(aoK, aoR.Rs, w)
    /\ m_pc' = "r"
    /\ UNCHANGED << m_err, argRs, argMRs, argKs, aoR, aoK, dvars >>

NextMatrix == Construct \/ R2k \/ K2r

SpecMatrix == InitMatrix /\ [][NextMatrix]_vars

(***************************************************************************)
(* Claims about matrix.py, checked under SpecMatrix.                       *)
(***************************************************************************)
MismatchedArgs ==
    \/ argMRs.shape[1] # Len(argRs)
    \/ argMRs.shape[2] # argMRs.shape[3]

\* C6: constructing AOMatrixR from displacements and matrices whose first axis
\* differs in length from the displacement list, or whose trailing two axes are
\* not square, fails with DimensionMismatchError and produces no object.
C6_ConstructorRejects ==
    (m_pc # "new" /\ MismatchedArgs) =>
        (aoR = NoObject /\ m_err = "DimensionMismatchError")

CongruentMod(u, v, N) == \A c \in 1..3 : (u[c] - v[c]) % N = 0

\* ks is the uniform grid of N points per axis and the displacements are
\* pairwise distinct modulo N
Adequate(points, Rs) ==
    \E N \in { 1, 2, 4 } :
        /\ points = Grid(N)
        /\ \A i, j \in DOMAIN Rs : i # j => ~CongruentMod(Rs[i], Rs[j], N)

\* C10: on a uniform grid of N points per axis with all displacements distinct
\* modulo N, r2k followed by k2r with the same displacements and the default
\* weights 1/N_k returns the original real-space matrices, one per displacement
\* and in the displacement order.
C10_RoundTrip ==
    (m_pc = "r" /\ argWeights = << >> /\ Adequate(aoK.ks, aoR.Rs)) =>
        backMRs = aoR.MRs

C10_Witness ==
    /\ m_pc = "r"
    /\ argWeights = << >>
    /\ aoK.ks = Grid(4)
    /\ Adequate(aoK.ks, aoR.Rs)
    /\ aoR.MRs.shape = << 3, 2, 2 >>
    /\ \E j \in DOMAIN aoR.MRs.data : aoR.MRs.data[j][2] # 0
    /\ aoR.Rs[1] = << 1, 0, 0 >> /\ aoR.Rs[2] = << -1, 0, 0 >>
    /\ backMRs = aoR.MRs

(***************************************************************************)
(* Inputs of a call of diag.  The three Hamiltonians have the              *)
(* displacements -1, 0, 1 along the first axis and real diagonal matrices  *)
(* with M(-R) = M(R).                                                      *)
(***************************************************************************)
RealArray(shape, ints) == NdArray(shape, [x \in 1..Len(ints) |-> CInt(ints[x])])

ChainRs == << << -1, 0, 0 >>, << 0, 0, 0 >>, << 1, 0, 0 >> >>

\* one orbital, hopping -1, onsite 0, overlap the identity
Chain ==
    [Rijk_list |-> ChainRs,
     HR |-> RealArray(<< 3, 1, 1 >>, << -1, 0, -1 >>),
     SR |-> RealArray(<< 3, 1, 1 >>, << 0, 1, 0 >>)]

\* one orbital whose overlap 1 - 2 cos(2 pi k) is not positive at k = 0
ChainOverlap ==
    [Rijk_list |-> ChainRs,
     HR |-> RealArray(<< 3, 1, 1 >>, << -1, 0, -1 >>),
     SR |-> RealArray(<< 3, 1, 1 >>, << -1, 1, -1 >>)]

\* three orbitals with energies 1 - 2c, -1 + 2c and 0, c = cos(2 pi k)
ThreeBand ==
    [Rijk_list |-> ChainRs,
     HR |-> RealArray(<< 3, 3, 3 >>,
                      << -1, 0, 0, 0, 1, 0, 0, 0, 0,
                          1, 0, 0, 0, -1, 0, 0, 0, 0,
                         -1, 0, 0, 0, 1, 0, 0, 0, 0 >>),
     SR |-> RealArray(<< 3, 3, 3 >>,
                      << 0, 0, 0, 0, 0, 0, 0, 0, 0,
                         1, 0, 0, 0, 1, 0, 0, 0, 1,
                         0, 0, 0, 0, 0, 0, 0, 0, 0 >>)]

HamChoices == { Chain, ChainOverlap, ThreeBand }

KPointPool == { << 0, 0, 0 >>, << 1, 0, 0 >>, << 2, 0, 0 >> }

KwargsChoices ==
    { NoKwargs,
      [k |-> 2, which |-> "SA", driver |-> ""],
      [k |-> 0, which |-> "", driver |-> "gvd"] }

\* the BLAS thread count of a process that set no limit
Cores == MaxThreads + 1

LibraryThreads(env) == IF env = 0 THEN Cores ELSE env

NoResult ==
    [raised |-> "", k |-> << >>, Sk |-> NoArray, Hk |-> NoArray, solver |-> "",
     kw |-> NoKwargs, raw |-> SolverRaised(""), vals |-> << >>, vecs |-> NoArray]

Init ==
    /\ IdleMatrix
    /\ pc = "call"
    /\ err = ""
    /\ ham \in HamChoices
    /\ ks \in InjectiveSeqs(KPointPool, MaxNk)
    /\ k_process_num \in 1..MaxWorkers
    /\ thread_num \in { 0, MaxThreads }
    /\ sparse_calc \in BOOLEAN
    /\ bands_only \in BOOLEAN
    /\ kwargs \in KwargsChoices
    /\ envThreads \in { 0, MaxThreads }
    /\ blasLimit = LibraryThreads(envThreads)
    /\ unit = [i \in 1..Len(ks) |-> [st |-> "pending", threads |-> 0, res |-> NoResult]]
    /\ order = << >>
    /\ results = << >>
    /\ ret = NoReturn

Running == { i \in DOMAIN unit : unit[i].st = "running" }

\* lines 123-125: the limit is resolved and set on entering the with block
Enter ==
    /\ pc = "call"
    /\ blasLimit' = ThreadLimit(thread_num, envThreads)
    /\ pc' = "batch"
    /\ UNCHANGED << mvars, err, args, unit, order, results, ret >>

\* line 127: the next process_k(k) of the comprehension; its exception leaves
\* the with block, which restores the limit, and diag
SeqStep(i) ==
    /\ pc = "batch"
    /\ k_process_num = 1
    /\ unit[i].st = "pending"
    /\ \A j \in 1..(i - 1) : unit[j].st = "done"
    /\ \E o \in process_k(ham, ks[i], sparse_calc, bands_only, kwargs) :
         /\ unit' = [unit EXCEPT ![i] = [st |-> Finished(o), threads |-> blasLimit, res |-> o]]
         /\ IF Finished(o) = "failed"
            THEN /\ pc' = "raised"
                 /\ err' = o.raised
                 /\ blasLimit' = LibraryThreads(envThreads)
            ELSE UNCHANGED << pc, err, blasLimit >>
    /\ order' = Append(order, i)
    /\ UNCHANGED << mvars, args, results, ret >>

\* lines 129-131: Parallel hands the next task, in the order of ks, to a free
\* worker of its k_process_num workers
Dispatch(i) ==
    /\ pc = "batch"
    /\ k_process_num > 1
    /\ unit[i].st = "pending"
    /\ \A j \in 1..(i - 1) : unit[j].st # "pending"
    /\ Cardinality(Running) < k_process_num
    /\ unit' = [unit EXCEPT ![i] = [st |-> "running", threads |-> blasLimit, res |-> NoResult]]
    /\ UNCHANGED << mvars, pc, err, args, blasLimit, order, results, ret >>

\* a worker's process_k(k) ends
Complete(i) ==
    /\ pc = "batch"
    /\ unit[i].st = "running"
    /\ \E o \in process_k(ham, ks[i], sparse_calc, bands_only, kwargs) :
         unit' = [unit EXCEPT ![i] = [st |-> Finished(o), threads |-> @.threads, res |-> o]]
    /\ order' = Append(order, i)
    /\ UNCHANGED << mvars, pc, err, args, blasLimit, results, ret >>

\* Parallel raises a task's exception in the caller; it leaves the with block
\* and diag
RaiseParallel ==
    /\ pc = "batch"
    /\ k_process_num > 1
    /\ \E i \in DOMAIN unit :
         /\ unit[i].st = "failed"
         /\ err' = unit[i].res.raised
    /\ pc' = "raised"
    /\ blasLimit' = LibraryThreads(envThreads)
    /\ UNCHANGED << mvars, args, unit, order, results, ret >>

\* every unit has returned: `results` is bound and the with block is left
Gather ==
    /\ pc = "batch"
    /\ \A i \in DOMAIN unit : unit[i].st = "done"
    /\ results' = Results(unit, order)
    /\ blasLimit' = LibraryThreads(envThreads)
    /\ pc' = "gathered"
    /\ UNCHANGED << mvars, err, args, unit, order, ret >>

\* lines 133-146
Assemble ==
    /\ pc = "gathered"
    /\ LET r == Reorganize(results, bands_only)
       IN  IF r.raised # ""
           THEN /\ pc' = "raised"
                /\ err' = r.raised
                /\ ret' = ret
           ELSE /\ pc' = "returned"
                /\ err' = err
                /\ ret' = r
    /\ UNCHANGED << mvars, args, blasLimit, unit, order, results >>

Next ==
    \/ Enter
    \/ \E i \in DOMAIN unit : SeqStep(i)
    \/ \E i \in DOMAIN unit : Dispatch(i)
    \/ \E i \in DOMAIN unit : Complete(i)
    \/ RaiseParallel
    \/ Gather
    \/ Assemble

Spec == Init /\ [][Next]_vars

(***************************************************************************)
(* The reorganisation of lines 133-146 on its own: `results` is any list   *)
(* of per-point results, the eigenvalue counts of its entries free.  (In a *)
(* call of diag every point is solved with the same keywords, and the      *)
(* solvers return the same count for each.)                                *)
(***************************************************************************)
PointResult(ne, seed) ==
    LET raw == [raised |-> "",
                vals   |-> [e \in 1..ne |-> << seed + e, 1 >>],
                vecs   |-> UnitCols(2, [e \in 1..ne |-> e])]
    IN  UnitResult(<< 0, 0, 0 >>, NoArray, NoArray, "eigsh", NoKwargs, raw, raw.vals, raw.vecs)

PointChoices == { PointResult(ne, seed) : ne \in 1..2, seed \in 0..MaxSeed }

InitAssemble ==
    /\ IdleMatrix
    /\ pc = "gathered"
    /\ err = ""
    /\ ham = NoHam
    /\ ks = << >>
    /\ k_process_num = 1
    /\ thread_num = 0
    /\ sparse_calc = TRUE
    /\ bands_only \in BOOLEAN
    /\ kwargs = NoKwargs
    /\ envThreads = 0
    /\ blasLimit = 1
    /\ unit = << >>
    /\ order = << >>
    /\ results \in UNION { [1..l -> PointChoices] : l \in 1..MaxNk }
    /\ ret = NoReturn

NextAssemble == Assemble

SpecAssemble == InitAssemble /\ [][NextAssemble]_vars

(***************************************************************************)
(* Claims about diag.                                                      *)
(***************************************************************************)
\* a[:, i] of a two-axis array
ValsColumn(a, i) == [e \in 1..a.shape[1] |-> At2(a, e, i)]

\* a[:, :, i] of a three-axis array
VecsSlice(a, i) ==
    NdArray(<< a.shape[1], a.shape[2] >>,
            [x \in 1..(a.shape[1] * a.shape[2]) |-> a.data[(x - 1) * a.shape[3] + i]])

\* what process_k(ks[i]) returns when it returns
ExpectedResult(i) ==
    CHOOSE o \in process_k(ham, ks[i], sparse_calc, bands_only, kwargs) : o.raised = ""

\* C1: whatever the worker count and the order in which the units complete,
\* column i of the returned eigenvalues and slice i of the returned
\* eigenvectors are the result computed for ks[i]; the returned value is a
\* function of the input alone, the same for every worker count.
C1_InputOrder ==
    pc = "returned" =>
        \A i \in 1..Len(ks) :
            /\ unit[i].res.k = ks[i]
            /\ ValsColumn(ret.eigvals, i) = unit[i].res.vals
            /\ ValsColumn(ret.eigvals, i) = ExpectedResult(i).vals
            /\ ~bands_only =>
                 /\ VecsSlice(ret.eigvecs, i) = unit[i].res.vecs
                 /\ VecsSlice(ret.eigvecs, i) = ExpectedResult(i).vecs

C1_Witness ==
    /\ pc = "returned"
    /\ k_process_num > 1
    /\ ~bands_only
    /\ Len(ks) >= 2
    /\ order[1] = 2
    /\ unit[1].res.vals # unit[2].res.vals
    /\ ValsColumn(ret.eigvals, 1) = unit[1].res.vals
    /\ ValsColumn(ret.eigvals, 2) = unit[2].res.vals

SomeUnitRaised == \E i \in DOMAIN unit : unit[i].res.raised # ""

\* C2: diag returns only when process_k returned for every point of ks, and
\* then with N_k columns; once process_k has raised for some point, in the
\* sequential run or in a worker, nothing is returned and diag raises.
C2_FailFast ==
    /\ pc = "returned" =>
         /\ \A i \in 1..Len(ks) : unit[i].st = "done" /\ unit[i].res.raised = ""
         /\ ret.eigvals.shape[2] = Len(ks)
    /\ SomeUnitRaised =>
         /\ pc \in { "batch", "raised" }
         /\ ret = NoReturn
         /\ results = << >>
         /\ pc = "batch" => k_process_num > 1 /\ ENABLED RaiseParallel

C2_Witness ==
    /\ pc = "raised"
    /\ k_process_num > 1
    /\ \E i, j \in DOMAIN unit :
         /\ unit[i].st = "done"
         /\ unit[j].st = "failed"
         /\ err = unit[j].res.raised
    /\ ret = NoReturn

\* C3: with k_process_num > 1 every unit runs under a BLAS thread count of 1
\* when thread_num is not given and of thread_num otherwise.
C3_ThreadCap ==
    \A i \in DOMAIN unit :
        (k_process_num > 1 /\ unit[i].st # "pending") =>
            unit[i].threads = (IF thread_num = 0 THEN 1 ELSE thread_num)

\* C4: in sparse mode the eigenvalues of a per-point result are ascending
\* whatever order eigsh returned them in, with bands_only true or false, and
\* the eigenvector columns are permuted with them: column e is the vector
\* eigsh paired with eigenvalue e.
C4_SparseSorted ==
    \A i \in DOMAIN unit :
        (sparse_calc /\ unit[i].st = "done") =>
            LET r == unit[i].res
                n == Len(r.raw.vals)
            IN  /\ Len(r.vals) = n
                /\ \A e1, e2 \in 1..n : e1 < e2 => ~QLess(r.vals[e2], r.vals[e1])
                /\ \E p \in AllPerms(n) :
                     \A e \in 1..n :
                         /\ r.vals[e] = r.raw.vals[p[e]]
                         /\ ~bands_only => Col(r.vecs, e) = Col(r.raw.vecs, p[e])
                /\ bands_only => r.vecs = NoArray

C4_Witness ==
    \E i \in DOMAIN unit :
        /\ sparse_calc
        /\ ~bands_only
        /\ unit[i].st = "done"
        /\ Len(unit[i].res.raw.vals) = 2
        /\ QLess(unit[i].res.raw.vals[2], unit[i].res.raw.vals[1])
        /\ QLess(unit[i].res.vals[1], unit[i].res.vals[2])
        /\ Col(unit[i].res.vecs, 1) = Col(unit[i].res.raw.vecs, 2)

\* C5: diag returns eigenvalues of shape (N_e, N_k) and, unless bands_only,
\* eigenvectors of shape (N_b, N_e, N_k), the query point on the last axis;
\* with bands_only only the eigenvalues; in dense mode N_e = N_b.
C5_Shapes ==
    pc = "returned" =>
        LET Nk == Len(ks)
            Nb == ham.HR.shape[2]
            Ne == Len(results[1].vals)
        IN  /\ ret.eigvals.shape = << Ne, Nk >>
            /\ \A i \in 1..Nk, e \in 1..Ne : At2(ret.eigvals, e, i) = results[i].vals[e]
            /\ bands_only => ret.eigvecs = NoArray
            /\ ~bands_only =>
                 /\ ret.eigvecs.shape = << Nb, Ne, Nk >>
                 /\ \A i \in 1..Nk, b \in 1..Nb, e \in 1..Ne :
                      ret.eigvecs.data[((b - 1) * Ne + (e - 1)) * Nk + i]
                          = At2(results[i].vecs, b, e)
            /\ ~sparse_calc => Ne = Nb

C5_Witness ==
    /\ pc = "returned"
    /\ ~sparse_calc
    /\ ~bands_only
    /\ ret.eigvals.shape = << 3, 2 >>
    /\ ret.eigvecs.shape = << 3, 3, 2 >>

\* the per-point results of the batch differ in their eigenvalue count
Ragged(rs) == \E i, j \in DOMAIN rs : Len(rs[i].vals) # Len(rs[j].vals)

C8_KwargsPassed ==
    \A i \in DOMAIN unit :
        unit[i].st \in { "done", "failed" } => unit[i].res.kw = kwargs

\* C9: for the one-orbital chain (Hamiltonian -1, 0, -1 and overlap 0, 1, 0
\* at the displacements -1, 0, 1) the point k = 0 gives H_k = -2, S_k = 1 and
\* the eigenvalue -2, the point k = 1/2 gives H_k = 2, S_k = 1 and the
\* eigenvalue 2.
C9_Chain ==
    ham = Chain =>
        \A i \in DOMAIN unit :
            unit[i].st = "done" =>
                /\ ks[i] = << 0, 0, 0 >> =>
                     /\ unit[i].res.Hk = NdArray(<< 1, 1 >>, << CInt(-2) >>)
                     /\ unit[i].res.Sk = NdArray(<< 1, 1 >>, << CInt(1) >>)
                     /\ unit[i].res.vals = << << -2, 1 >> >>
                     /\ pc = "returned" => ValsColumn(ret.eigvals, i) = << << -2, 1 >> >>
                /\ ks[i] = << 2, 0, 0 >> =>
                     /\ unit[i].res.Hk = NdArray(<< 1, 1 >>, << CInt(2) >>)
                     /\ unit[i].res.Sk = NdArray(<< 1, 1 >>, << CInt(1) >>)
                     /\ unit[i].res.vals = << << 2, 1 >> >>
                     /\ pc = "returned" => ValsColumn(ret.eigvals, i) = << << 2, 1 >> >>

C9_Witness ==
    /\ ham = Chain
    /\ pc = "returned"
    /\ ks = << << 0, 0, 0 >>, << 2, 0, 0 >> >>
    /\ ret.eigvals = NdArray(<< 1, 2 >>, << << -2, 1 >>, << 2, 1 >> >>)

=============================================================================
